---- MODULE Spec2Model ----
(***************************************************************************)
(* Model of the deep-research orchestrator (src/src/deep_research.py), of  *)
(* the recursive text splitter (src/src/ai/text_splitter.py), of the       *)
(* prompt trimmer (src/src/ai/providers.py) and of the tool-server         *)
(* front-end (src/mcp_deep_research.py).                                   *)
(*                                                                         *)
(* Specifications.  Spec and FairSpec run the orchestrator; SegSpec builds *)
(* a splitter and splits a text; TrimSpec calls trim_prompt, and calls it  *)
(* again on its result; UnitSpec calls the planner, the extractor or the   *)
(* front-end once.  Each leaves the variables of the others idle.          *)
(*                                                                         *)
(* An orchestrator call is named by its path in the call tree: the root    *)
(* is <<>>, and the call made by branch i of call p is Append(p, i).  The  *)
(* branch (the process_query task) i of call p has the same name as the    *)
(* call it may make.                                                       *)
(*                                                                         *)
(* Steps.  The tasks of a call run on one asyncio event loop.  A task can  *)
(* be suspended where it enters the semaphore, where the gather of its     *)
(* recursive call waits, and where a call's own gather waits; the search   *)
(* (tavily.search) and the completion service (generate_object) are        *)
(* called synchronously.  The actions are these segments: Plan, Acquire,   *)
(* ProcessQuery or one of its failures (SearchFail, ProcessFail,           *)
(* NextQueryFail), Return, Merge.  They interleave freely, which allows    *)
(* every schedule of the event loop (and more).                            *)
(*                                                                         *)
(* Data.  Findings and urls are strings; a query is known by the path of   *)
(* its branch, its text is not modelled.  A text given to the splitter is  *)
(* a sequence of one-character strings.                                    *)
(***************************************************************************)
EXTENDS Integers, Sequences, FiniteSets, TLC

\* ------------------------------------------------------------------ bounds
MaxBreadth == 4
MaxDepth == 2
\* total number of process_query tasks created in one call tree
MaxBranches == 3
\* longest text and largest chunk_size given to the text splitter
MaxTextLen == 5
MaxChunkSize == 4
\* the prompts given to trim_prompt are made of at most MaxBlocks blocks,
\* a block being a word of WordLen letters, white space, or both
MaxBlocks == 4
WordLen == 48
\* largest token budget given to trim_prompt
MaxBudget == 50
\* most queries in a planner response, most learnings and most follow-up
\* questions in an extractor response, most documents given to the
\* extractor, largest magnitude of a number a tool client sends
MaxQueries == 3
MaxItems == 3
MaxDocs == 2
MaxArg == 12

\* ----------------------------------------------------------------- helpers
Max(a, b) == IF a >= b THEN a ELSE b
Min(a, b) == IF a <= b THEN a ELSE b

RECURSIVE Pow2(_)
Pow2(k) == IF k = 0 THEN 1 ELSE 2 * Pow2(k - 1)

\* set(list)
SetOf(s) == {s[i] : i \in DOMAIN s}

\* list(set): the elements of S, each once, in an order the program does not fix
ListsOf(S) == {s \in [1..Cardinality(S) -> S] : SetOf(s) = S}

NoDuplicates(s) == \A i, j \in DOMAIN s : s[i] = s[j] => i = j

Parent(t) == SubSeq(t, 1, Len(t) - 1)
IsPrefix(p, t) == Len(p) <= Len(t) /\ SubSeq(t, 1, Len(p)) = p

\* ------------------------------------------------------- external services
\* What the completion service answers to the planner: a failure (timeout,
\* malformed or schema-violating response) or a well-formed response with
\* its queries in order.  A query is known by a number.
PlannerError == [error |-> TRUE, queries |-> <<>>]
PlannerAnswer(queries) == [error |-> FALSE, queries |-> queries]
PlannerResponses ==
    {PlannerError} \cup
    {PlannerAnswer([i \in 1..k |-> i]) : k \in 0..(MaxBreadth + 1)}

\* What the search service returns: a list of items; url "" is an item
\* without url, content "" an item without (or with empty) content.
SearchResponses ==
    { <<[url |-> "u1", content |-> "c"]>>,
      <<[url |-> "", content |-> "c"], [url |-> "u2", content |-> ""]>> }

\* What the completion service answers to the extractor: a failure or a
\* well-formed response with its learnings and its follow-up questions.
ExtractorError ==
    [error |-> TRUE, learnings |-> <<>>, follow_up_questions |-> <<>>]
ExtractorAnswer(learnings, follow_up_questions) ==
    [error |-> FALSE, learnings |-> learnings,
     follow_up_questions |-> follow_up_questions]
ExtractorResponses == { ExtractorError, ExtractorAnswer(<<"f1">>, <<"q1">>) }

\* The values of CONCURRENCY_LIMIT explored: TAVILY_CONCURRENCY sets it, 2 is
\* the default.
Limits == {1, 2}

\* The breadths a caller passes to the root call: one that is floored at 1
\* when halved, one that halves to 1, and the largest, which halves further.
Breadths == {1, 2, MaxBreadth}

\* The depths a caller passes to the root call: none, one level and the
\* deepest.
Depths == {0, 1, MaxDepth}

\* The seeds a caller passes to the root call.
Seeds ==
    { [learnings |-> <<>>, visited_urls |-> <<>>],
      [learnings |-> <<"f1">>, visited_urls |-> <<"u2">>] }

\* ------------------------------------------------------------------- state
VARIABLES
    limit,      \* CONCURRENCY_LIMIT
    calls,      \* the deep_research calls made so far, by path
    tasks,      \* the process_query tasks created so far, by path
    semaphore,  \* free slots of each asyncio.Semaphore created so far
    seg,        \* a RecursiveCharacterTextSplitter and the text it is given
    trim,       \* a trim_prompt call: its arguments, its recursion, its result
    unit        \* a call of one function on its own, from arguments to result

orch == <<limit, calls, tasks, semaphore>>
\* what the orchestrator leaves alone
rest == <<seg, trim, unit>>
vars == <<limit, calls, tasks, semaphore, seg, trim, unit>>

EmptyResult == [learnings |-> <<>>, visited_urls |-> <<>>]

\* ResearchProgress as deep_research builds it
NewProgress(breadth, depth) ==
    [current_depth |-> depth, total_depth |-> depth,
     current_breadth |-> breadth, total_breadth |-> breadth,
     total_queries |-> 0, completed_queries |-> 0]

\* The frame of a deep_research call right after its arguments are bound.
NewCall(breadth, depth, learnings, visited_urls) ==
    [breadth |-> breadth, depth |-> depth,
     learnings |-> learnings, visited_urls |-> visited_urls,
     pc |-> "plan", n |-> 0,
     progress |-> NewProgress(breadth, depth),
     reported |-> <<>>,
     ret |-> EmptyResult]

NewTask ==
    [pc |-> "wait", serp |-> <<>>, new_urls |-> <<>>,
     extractor |-> "none", processed |-> <<>>, next_query |-> <<>>,
     failed |-> FALSE, result |-> EmptyResult]

\* ------------------------------------------------------------ pure functions
\* a planner that cuts the response one query after num_queries
generate_serp_queries_OneMore(response, num_queries) ==
    IF response.error THEN <<>>
    ELSE SubSeq(response.queries, 1,
                Min(num_queries + 1, Len(response.queries)))

\* a planner that returns every query of the response
generate_serp_queries_All(response, num_queries) ==
    IF response.error THEN <<>> ELSE response.queries

\* generate_serp_queries, for num_queries >= 0: queries[:num_queries], and
\* [] when the completion service or the parsing of its response fails
generate_serp_queries(response, num_queries) ==
    IF response.error THEN <<>>
    ELSE SubSeq(response.queries, 1, Min(num_queries, Len(response.queries)))

\* a loop that keeps the url of an item only when the item has content
new_urls_WithContent(result) ==
    LET withUrl == SelectSeq(result, LAMBDA item :
                                 item.url # "" /\ item.content # "")
    IN  [i \in DOMAIN withUrl |-> withUrl[i].url]

\* the loop of process_query over the search result
new_urls_of(result) ==
    LET withUrl == SelectSeq(result, LAMBDA item : item.url # "")
    IN  [i \in DOMAIN withUrl |-> withUrl[i].url]

\* a loop that hands on the content of the items without url too
scraped_contents_All(result) ==
    [i \in DOMAIN result |->
        [url |-> result[i].url, markdown |-> result[i].content,
         content |-> ""]]

\* the same loop: what it hands to process_serp_result
scraped_contents_of(result) ==
    LET withUrl == SelectSeq(result, LAMBDA item : item.url # "")
    IN  [i \in DOMAIN withUrl |->
            [url |-> withUrl[i].url, markdown |-> withUrl[i].content,
             content |-> ""]]

\* num_learnings of process_serp_result when the caller gives none
NUM_LEARNINGS == 3

\* an extractor that keeps the documents without content
contents_of_Unfiltered(result) ==
    [i \in DOMAIN result |->
        IF result[i].markdown # "" THEN result[i].markdown
        ELSE result[i].content]

\* The contents process_serp_result collects from result["results"]: the
\* markdown of an item, else its content; "" is a key that is absent or
\* empty.  trim_prompt(content, 25000) is left out: the trimmer is modelled
\* on its own.
contents_of(result) ==
    LET kept == SelectSeq(result, LAMBDA item :
                              item.markdown # "" \/ item.content # "")
    IN  [i \in DOMAIN kept |->
            IF kept[i].markdown # "" THEN kept[i].markdown
            ELSE kept[i].content]

\* an extractor that answers a failure of the completion service with a
\* placeholder finding
process_serp_result_Placeholder(result, num_learnings, num_follow_up_questions, response) ==
    IF contents_of(result) = <<>>
    THEN [learnings |-> <<>>, follow_up_questions |-> <<>>,
          generate_object_calls |-> 0]
    ELSE IF response.error
    THEN [learnings |-> <<"error">>, follow_up_questions |-> <<>>,
          generate_object_calls |-> 1]
    ELSE [learnings |-> response.learnings,
          follow_up_questions |-> response.follow_up_questions,
          generate_object_calls |-> 1]

\* process_serp_result: what it returns, and generate_object_calls, the
\* number of calls of the completion service it has made
process_serp_result(result, num_learnings, num_follow_up_questions, response) ==
    IF contents_of(result) = <<>>
    THEN [learnings |-> <<>>, follow_up_questions |-> <<>>,
          generate_object_calls |-> 0]
    ELSE IF response.error
    THEN [learnings |-> <<>>, follow_up_questions |-> <<>>,
          generate_object_calls |-> 1]
    ELSE [learnings |-> response.learnings,
          follow_up_questions |-> response.follow_up_questions,
          generate_object_calls |-> 1]

\* a halving without the floor at 1
new_breadth_NoFloor(breadth) == breadth \div 2

new_breadth_of(breadth) == Max(1, breadth \div 2)

\* a recursion that keeps the depth
new_depth_Same(depth) == depth

new_depth_of(depth) == depth - 1

\* a recursion test that also recurses at new_depth 0
ShouldRecurse_OffByOne(new_depth) == new_depth >= 0

ShouldRecurse(new_depth) == new_depth > 0

\* an except clause that still returns the source the search discovered
FailureResult_KeepsSource == [learnings |-> <<>>, visited_urls |-> <<"u1">>]

\* the result of a branch whose search or extraction raised
FailureResult == [learnings |-> <<>>, visited_urls |-> <<>>]

\* an empty-plan return that drops the seed
EmptyPlanResult_Dropped(learnings, visited_urls) ==
    [learnings |-> <<>>, visited_urls |-> <<>>]

\* the result of a call whose plan is empty
EmptyPlanResult(learnings, visited_urls) ==
    [learnings |-> learnings, visited_urls |-> visited_urls]

\* an assignment in place of set.update
update_Replace(acc, xs) == SetOf(xs)

\* set.update of the merge loop
update(acc, xs) == acc \cup SetOf(xs)

\* the merge loop of deep_research over the gathered results, in list order
RECURSIVE merge_learnings(_, _)
merge_learnings(acc, results) ==
    IF results = <<>> THEN acc
    ELSE merge_learnings(update(acc, Head(results).learnings), Tail(results))

RECURSIVE merge_urls(_, _)
merge_urls(acc, results) ==
    IF results = <<>> THEN acc
    ELSE merge_urls(update(acc, Head(results).visited_urls), Tail(results))

\* a merge that starts from empty sets
merge_seed_Empty(xs) == {}

\* the set the merge starts from
merge_seed(xs) == SetOf(xs)

\* one semaphore, the root's, for the whole call tree
GateOf_Shared(p) == <<>>

\* the semaphore the branches of call p acquire: the one call p created
GateOf(p) == p

\* a gate that lets every branch in
CanAcquire_Ungated(p) == TRUE

\* the semaphore of call p has a free slot
CanAcquire(p) == semaphore[GateOf(p)] > 0

\* a wait that returns with the first finished task
GatherReady_FirstCompleted(p) ==
    \E i \in 1..calls[p].n : tasks[Append(p, i)].pc = "done"

\* asyncio.gather: all tasks of call p have finished
GatherReady(p) ==
    \A i \in 1..calls[p].n : tasks[Append(p, i)].pc = "done"

\* the gathered results of call p, in task order
Results(p) == [i \in 1..calls[p].n |-> tasks[Append(p, i)].result]

\* `if on_progress: on_progress(progress)` for a caller that gave a
\* callback: reported is the sequence of what the callback was called with,
\* the counters as they are at the call
on_progress(reported, progress) == Append(reported, progress)

\* a branch that passes on what it found without the seed of its call
accumulate_FoundOnly(seed, found) == found

\* all_learnings = learnings + processed["learnings"] and
\* all_urls = visited_urls + new_urls
accumulate(seed, found) == seed \o found

\* what became of the completion service call of process_serp_result
extractor_outcome(processed, response) ==
    IF processed.generate_object_calls = 0 THEN "none"
    ELSE IF response.error THEN "error" ELSE "ok"

\* a plan report that counts the queries asked for, not those planned
report_plan_Requested(progress, n) ==
    [progress EXCEPT !.total_queries = progress.total_breadth]

\* progress.update(update) for each of the three reports; the counters are
\* modelled, the text of current_query is not
report_plan(progress, n) ==
    [progress EXCEPT !.total_queries = n]

\* the report of a branch that is about to recurse
report_deeper(progress, new_depth, new_breadth) ==
    [progress EXCEPT !.current_depth = new_depth,
                     !.current_breadth = new_breadth,
                     !.completed_queries = progress.completed_queries + 1]

\* a report that counts from the counter as it was when the branches started
report_terminal_Stale(progress) ==
    [progress EXCEPT !.current_depth = 0, !.completed_queries = 1]

\* the report of a branch at the last level
report_terminal(progress) ==
    [progress EXCEPT !.current_depth = 0,
                     !.completed_queries = progress.completed_queries + 1]

\* ------------------------------------------------------------ text splitter
\* A text is a sequence of one-character strings.
Chars == {"a", " ", "\n", "."}

\* the characters str.strip removes
IsWhitespace(c) == c \in {" ", "\n"}

\* s is white space from position i to position j
Blank(s, i, j) == \A k \in i..j : IsWhitespace(s[k])

lstrip(s) ==
    IF Blank(s, 1, Len(s)) THEN <<>>
    ELSE SubSeq(s, CHOOSE i \in 1..Len(s) :
                       ~IsWhitespace(s[i]) /\ Blank(s, 1, i - 1), Len(s))

rstrip(s) ==
    IF Blank(s, 1, Len(s)) THEN <<>>
    ELSE SubSeq(s, 1, CHOOSE i \in 1..Len(s) :
                          ~IsWhitespace(s[i]) /\ Blank(s, i + 1, Len(s)))

\* str.strip
strip(s) == rstrip(lstrip(s))

\* sep in text, for a non-empty sep
Contains(text, sep) ==
    \E i \in 1..(Len(text) - Len(sep) + 1) :
        SubSeq(text, i, i + Len(sep) - 1) = sep

\* str.split(sep) for a non-empty sep: the text up to the leftmost sep is a
\* piece, and the rest is split after that sep
RECURSIVE split(_, _)
split(text, sep) ==
    LET found == {i \in 1..(Len(text) - Len(sep) + 1) :
                     SubSeq(text, i, i + Len(sep) - 1) = sep}
    IN  IF found = {} THEN <<text>>
        ELSE LET i == CHOOSE i \in found : \A j \in found : i <= j
             IN  <<SubSeq(text, 1, i - 1)>> \o
                 split(SubSeq(text, i + Len(sep), Len(text)), sep)

\* separator.join(docs)
RECURSIVE join(_, _)
join(docs, sep) ==
    IF docs = <<>> THEN <<>>
    ELSE IF Len(docs) = 1 THEN docs[1]
    ELSE docs[1] \o sep \o join(Tail(docs), sep)

\* a constructor that accepts an overlap as large as the chunk
init_raises_Strict(chunk_size, chunk_overlap) == chunk_overlap > chunk_size

\* TextSplitter.__init__: the condition of its ValueError
init_raises(chunk_size, chunk_overlap) == chunk_overlap >= chunk_size

\* TextSplitter._join_docs; <<>> stands for None
join_docs(docs, separator) == strip(join(docs, separator))

\* the while loop of merge_splits
RECURSIVE pop_while(_, _, _, _)
pop_while(self, current_doc, total, len) ==
    IF /\ \/ total > self.chunk_overlap
          \/ (total + len > self.chunk_size /\ total > 0)
       /\ current_doc # <<>>
    THEN pop_while(self, Tail(current_doc), total - Len(Head(current_doc)), len)
    ELSE [current_doc |-> current_doc, total |-> total]

\* the length merge_splits counts for a piece
piece_len(d, separator, current_doc) == Len(d)

\* the for loop of merge_splits, from the pieces still to read
RECURSIVE merge_loop(_, _, _, _, _, _)
merge_loop(self, splits, separator, docs, current_doc, total) ==
    IF splits = <<>>
    THEN LET doc == join_docs(current_doc, separator)
         IN  IF doc # <<>> THEN Append(docs, doc) ELSE docs
    ELSE LET d == Head(splits)
             len == piece_len(d, separator, current_doc)
             flush == total + len >= self.chunk_size /\ current_doc # <<>>
             doc == join_docs(current_doc, separator)
             docs1 == IF flush /\ doc # <<>> THEN Append(docs, doc) ELSE docs
             kept == IF flush THEN pop_while(self, current_doc, total, len)
                     ELSE [current_doc |-> current_doc, total |-> total]
         IN  merge_loop(self, Tail(splits), separator, docs1,
                        Append(kept.current_doc, d), kept.total + len)

\* TextSplitter.merge_splits
merge_splits(self, splits, separator) ==
    merge_loop(self, splits, separator, <<>>, <<>>, 0)

\* The pieces merge_splits carries from one chunk into the next: the
\* current_doc left by the while loop at every flush of the for loop.
RECURSIVE carried_loop(_, _, _, _, _)
carried_loop(self, splits, separator, current_doc, total) ==
    IF splits = <<>> THEN <<>>
    ELSE LET d == Head(splits)
             len == piece_len(d, separator, current_doc)
             flush == total + len >= self.chunk_size /\ current_doc # <<>>
             kept == IF flush THEN pop_while(self, current_doc, total, len)
                     ELSE [current_doc |-> current_doc, total |-> total]
         IN  (IF flush THEN <<kept.current_doc>> ELSE <<>>) \o
             carried_loop(self, Tail(splits), separator,
                          Append(kept.current_doc, d), kept.total + len)

\* the separator split_text chooses
RECURSIVE first_separator(_, _, _)
first_separator(separators, text, default) ==
    IF separators = <<>> THEN default
    ELSE IF Head(separators) = <<>> THEN <<>>
    ELSE IF Contains(text, Head(separators)) THEN Head(separators)
    ELSE first_separator(Tail(separators), text, default)

\* RecursiveCharacterTextSplitter.split_text.  raised is TRUE when the call
\* calls itself with the text it was given, which recurses until Python
\* raises RecursionError.
RECURSIVE split_text(_, _)
RECURSIVE split_loop(_, _, _, _, _, _)
split_text(self, text) ==
    LET separator ==
            first_separator(self.separators, text,
                            self.separators[Len(self.separators)])
        splits == IF separator # <<>> THEN split(text, separator)
                  ELSE [i \in 1..Len(text) |-> <<text[i]>>]
    IN  split_loop(self, text, separator, splits, <<>>, <<>>)

split_loop(self, text, separator, splits, good_splits, final_chunks) ==
    IF splits = <<>>
    THEN [raised |-> FALSE,
          chunks |-> IF good_splits # <<>>
                     THEN final_chunks \o merge_splits(self, good_splits, separator)
                     ELSE final_chunks]
    ELSE LET s == Head(splits) IN
         IF Len(s) < self.chunk_size
         THEN split_loop(self, text, separator, Tail(splits),
                         Append(good_splits, s), final_chunks)
         ELSE IF s = text
         THEN [raised |-> TRUE, chunks |-> <<>>]
         ELSE LET merged == IF good_splits # <<>>
                            THEN merge_splits(self, good_splits, separator)
                            ELSE <<>>
                  other_info == split_text(self, s)
              IN  IF other_info.raised THEN other_info
                  ELSE split_loop(self, text, separator, Tail(splits), <<>>,
                                  final_chunks \o merged \o other_info.chunks)

\* the separators of RecursiveCharacterTextSplitter when none are given
DefaultSeparators ==
    << <<"\n", "\n">>, <<"\n">>, <<".">>, <<",">>, <<">">>, <<"<">>,
       <<" ">>, <<>> >>

\* the separator lists given to the splitter
SeparatorLists == { DefaultSeparators, << <<" ">>, <<>> >>, << <<" ">> >> }

Texts == UNION {[1..n -> Chars] : n \in 0..MaxTextLen}

SegIdle ==
    [pc |-> "idle", text |-> <<>>, chunk_size |-> 1, chunk_overlap |-> 0,
     separators |-> <<>>, chunks |-> <<>>, raised |-> FALSE]

\* ---------------------------------------------------------------- trimmer
\* src/src/ai/providers.py
MIN_CHUNK_SIZE == 140

\* s[:n] for n >= 0
prefix(s, n) == SubSeq(s, 1, Min(n, Len(s)))

\* len(encoder.encode(prompt)).  The encoding is a deterministic function
\* of the text; it is modelled by a counter that makes one token of every
\* chars_per_token characters.
num_tokens(prompt, chars_per_token) ==
    (Len(prompt) + chars_per_token - 1) \div chars_per_token

\* a test that sends a prompt of exactly context_size tokens to be cut
fits_Strict(length, context_size) == length < context_size

\* if length <= context_size: return prompt
fits(length, context_size) == length <= context_size

\* an estimate that takes nothing off the length of the prompt
chunk_size_of_NoShrink(prompt, length, context_size) == Len(prompt)

\* chunk_size = len(prompt) - overflow_tokens * 3
chunk_size_of(prompt, length, context_size) ==
    Len(prompt) - (length - context_size) * 3

\* a floor that returns the prompt as it is
floor_cut_Whole(prompt) == prompt

\* return prompt[:MIN_CHUNK_SIZE]
floor_cut(prompt) == prefix(prompt, MIN_CHUNK_SIZE)

\* a fail-open that keeps context_size characters
fail_open_Budget(prompt, context_size) == prefix(prompt, context_size)

\* except Exception: return prompt[:context_size * 3]
fail_open(prompt, context_size) == prefix(prompt, context_size * 3)

Returns(value, how) == [recurse |-> FALSE, value |-> value, how |-> how]
Recurses(value) == [recurse |-> TRUE, value |-> value, how |-> "recurse"]

\* a trimmer that cuts once and returns the cut
trim_prompt_Once(prompt, context_size, chars_per_token, encoder) ==
    IF prompt = <<>> THEN Returns(<<>>, "empty")
    ELSE IF encoder = "error"
    THEN Returns(fail_open(prompt, context_size), "fail_open")
    ELSE
    LET length == num_tokens(prompt, chars_per_token) IN
    IF fits(length, context_size) THEN Returns(prompt, "fits")
    ELSE Returns(prefix(prompt, Max(0, chunk_size_of(prompt, length, context_size))),
                 "fits")

\* One call of trim_prompt: what it returns, or the prompt it calls itself
\* with.  `encoder` is "error" when tiktoken.get_encoding raises.  A
\* recursive call is the last thing its caller does, and an exception
\* raised in it is caught in it, so the caller returns what it returns.
trim_prompt(prompt, context_size, chars_per_token, encoder) ==
    IF prompt = <<>> THEN Returns(<<>>, "empty")
    ELSE IF encoder = "error"
    THEN Returns(fail_open(prompt, context_size), "fail_open")
    ELSE
    LET length == num_tokens(prompt, chars_per_token) IN
    IF fits(length, context_size) THEN Returns(prompt, "fits")
    ELSE
    LET chunk_size == chunk_size_of(prompt, length, context_size) IN
    IF chunk_size < MIN_CHUNK_SIZE THEN Returns(floor_cut(prompt), "floor")
    ELSE IF init_raises(chunk_size, 0)
    THEN Returns(fail_open(prompt, context_size), "fail_open")
    ELSE
    LET splitter == [chunk_size |-> chunk_size, chunk_overlap |-> 0,
                     separators |-> DefaultSeparators]
        split_result == split_text(splitter, prompt)
        chunks == split_result.chunks
        trimmed_prompt == IF chunks # <<>> THEN chunks[1] ELSE <<>>
    IN  IF split_result.raised
        THEN Returns(fail_open(prompt, context_size), "fail_open")
        ELSE IF Len(trimmed_prompt) = Len(prompt)
        THEN Recurses(prefix(prompt, chunk_size))
        ELSE Recurses(trimmed_prompt)

\* the prompts, the budgets, the token counters and the encoder outcomes
\* a trim_prompt call is checked with
Word == [i \in 1..WordLen |-> "a"]
Blocks == { Word \o <<" ">>, Word \o <<"\n", "\n">>, <<"a", " ">>, <<"\n">> }

RECURSIVE concat(_)
concat(blocks) ==
    IF blocks = <<>> THEN <<>> ELSE Head(blocks) \o concat(Tail(blocks))

Prompts == {concat(bs) : bs \in UNION {[1..n -> Blocks] : n \in 0..MaxBlocks}}
Budgets == 1..MaxBudget
CharsPerToken == {1, 4}
\* the token counter works, fails from the first step on (get_encoding
\* raises), or fails in the recursive steps only ("late")
Encoders == {"ok", "error", "late"}

\* what the token counter does in the step at recursion depth `depth`
encoder_at(encoder, depth) ==
    IF encoder = "late" THEN (IF depth >= 1 THEN "error" ELSE "ok")
    ELSE encoder

TrimIdle == [pc |-> "idle"]

\* ------------------------------------------------- tool-server front-end
\* src/mcp_deep_research.py
\* max(lo, min(hi, value)) without the max
clamp_NoFloor(lo, hi, value) == Min(hi, value)

\* max(lo, min(hi, value))
clamp(lo, hi, value) == Max(lo, Min(hi, value))

\* arguments.get(key, default)
get(arguments, key, default) ==
    IF key \in DOMAIN arguments THEN arguments[key] ELSE default

\* deep_web_research up to its call of deep_research: whether the call is
\* made, and the breadth and the depth it is made with.  has_query is
\* whether arguments holds a non-empty query.
deep_web_research(has_query, arguments) ==
    LET breadth == get(arguments, "breadth", 3)
        depth == get(arguments, "depth", 2)
    IN  IF ~has_query
        THEN [deep_research |-> FALSE, breadth |-> breadth, depth |-> depth]
        ELSE [deep_research |-> TRUE,
              breadth |-> clamp(1, 10, breadth),
              depth |-> clamp(1, 5, depth)]

\* ------------------------------------------------ functions on their own
\* the responses the planner is checked with: the queries 1..MaxQueries in
\* any order and number, or a failure
QueryLists ==
    {q \in UNION {[1..n -> 1..MaxQueries] : n \in 0..MaxQueries} :
        NoDuplicates(q)}
UnitPlannerResponses == {PlannerError} \cup {PlannerAnswer(q) : q \in QueryLists}

\* the documents the extractor is checked with: an item holds markdown,
\* content, or neither
Items ==
    { [markdown |-> "", content |-> ""], [markdown |-> "m", content |-> ""],
      [markdown |-> "", content |-> "c"] }
Documents == UNION {[1..n -> Items] : n \in 0..MaxDocs}
UnitExtractorResponses ==
    {ExtractorError} \cup
    {ExtractorAnswer([i \in 1..l |-> i], [i \in 1..f |-> i]) :
        l \in 0..MaxItems, f \in 0..MaxItems}

\* the numbers a tool client sends
ClientInts == (0 - MaxArg)..MaxArg
Arguments == UNION {[D -> ClientInts] : D \in SUBSET {"breadth", "depth"}}

UnitIdle == [pc |-> "idle"]

\* -------------------------------------------------------------------- Init
Init ==
    /\ seg = SegIdle
    /\ trim = TrimIdle
    /\ unit = UnitIdle
    /\ limit \in Limits
    /\ \E b \in Breadths, d \in Depths, seed \in Seeds :
          calls = (<<>> :> NewCall(b, d, seed.learnings, seed.visited_urls))
    /\ tasks = << >>
    /\ semaphore = << >>

\* ----------------------------------------------------------------- actions
\* deep_research up to asyncio.gather: plan, then either return the seed or
\* create the semaphore and the tasks.
Plan(p) ==
    /\ calls[p].pc = "plan"
    /\ \E resp \in PlannerResponses :
          LET n == Len(generate_serp_queries(resp, calls[p].breadth)) IN
          \* the planner's answers are limited to those that keep the tree
          \* within MaxBranches branches
          /\ Cardinality(DOMAIN tasks) + n <= MaxBranches
          /\ IF n = 0
             THEN /\ calls' = [calls EXCEPT
                        ![p].pc = "done",
                        ![p].ret = EmptyPlanResult(calls[p].learnings,
                                                   calls[p].visited_urls)]
                  /\ UNCHANGED <<tasks, semaphore>>
             ELSE /\ calls' = [calls EXCEPT
                        ![p].pc = "gather",
                        ![p].n = n,
                        ![p].progress = report_plan(@, n),
                        ![p].reported =
                            on_progress(@, report_plan(calls[p].progress, n))]
                  /\ semaphore' =
                        IF GateOf(p) \in DOMAIN semaphore THEN semaphore
                        ELSE semaphore @@ (GateOf(p) :> limit)
                  /\ tasks' = tasks @@
                        [t \in {Append(p, i) : i \in 1..n} |-> NewTask]
    /\ UNCHANGED <<limit, rest>>

\* an entry that starts the branch without taking the slot
Acquire_NoDecrement(t) ==
    /\ tasks[t].pc = "wait"
    /\ CanAcquire(Parent(t))
    /\ tasks' = [tasks EXCEPT ![t].pc = "search"]
    /\ UNCHANGED <<limit, calls, semaphore, rest>>

\* async with semaphore: enter
Acquire(t) ==
    /\ tasks[t].pc = "wait"
    /\ CanAcquire(Parent(t))
    /\ semaphore' = [semaphore EXCEPT ![GateOf(Parent(t))] = @ - 1]
    /\ tasks' = [tasks EXCEPT ![t].pc = "search"]
    /\ UNCHANGED <<limit, calls, rest>>

\* an except clause that returns without leaving the semaphore
SearchFail_NoRelease(t) ==
    /\ tasks[t].pc = "search"
    /\ tasks' = [tasks EXCEPT
          ![t].pc = "done", ![t].failed = TRUE, ![t].result = FailureResult]
    /\ UNCHANGED <<limit, calls, semaphore, rest>>

\* tavily.search raises: the except clause, then the semaphore's exit
SearchFail(t) ==
    /\ tasks[t].pc = "search"
    /\ tasks' = [tasks EXCEPT
          ![t].pc = "done", ![t].failed = TRUE, ![t].result = FailureResult]
    /\ semaphore' = [semaphore EXCEPT ![GateOf(Parent(t))] = @ + 1]
    /\ UNCHANGED <<limit, calls, rest>>

\* The body of process_query after a successful search, up to its next await
\* that suspends (the gather of the recursive call) or its return.  The
\* search and the completion service are called synchronously, so the event
\* loop runs no other task in between.
ProcessQuery(t) ==
    /\ tasks[t].pc = "search"
    /\ \E result \in SearchResponses, resp \in ExtractorResponses :
          LET p == Parent(t)
              c == calls[p]
              new_urls == new_urls_of(result)
              scraped_contents == scraped_contents_of(result)
              new_breadth == new_breadth_of(c.breadth)
              new_depth == new_depth_of(c.depth)
              extracted ==
                  process_serp_result(scraped_contents, NUM_LEARNINGS,
                                      new_breadth, resp)
              processed == extracted.learnings
              all_learnings == accumulate(c.learnings, processed)
              all_urls == accumulate(c.visited_urls, new_urls)
              done == [tasks[t] EXCEPT
                         !.serp = result, !.new_urls = new_urls,
                         !.extractor = extractor_outcome(extracted, resp),
                         !.processed = processed]
          IN
          IF ShouldRecurse(new_depth)
          THEN LET progress ==
                       report_deeper(c.progress, new_depth, new_breadth)
               IN
               /\ calls' = [calls EXCEPT
                     ![p].progress = progress,
                     ![p].reported = on_progress(@, progress)]
                     @@ (t :> NewCall(new_breadth, new_depth,
                                      all_learnings, all_urls))
               /\ tasks' = [tasks EXCEPT
                     ![t] = [done EXCEPT
                         !.pc = "recurse",
                         !.next_query = extracted.follow_up_questions]]
               /\ UNCHANGED semaphore
          ELSE LET progress == report_terminal(c.progress) IN
               /\ calls' = [calls EXCEPT
                     ![p].progress = progress,
                     ![p].reported = on_progress(@, progress)]
               /\ tasks' = [tasks EXCEPT
                     ![t] = [done EXCEPT
                         !.pc = "done",
                         !.result = [learnings |-> all_learnings,
                                     visited_urls |-> all_urls]]]
               /\ semaphore' = [semaphore EXCEPT ![GateOf(p)] = @ + 1]
    /\ UNCHANGED <<limit, rest>>

\* The body of process_query when the search has succeeded and the
\* completion service has answered with learnings that are not a list:
\* process_serp_result returns them as they are, `learnings +
\* processed["learnings"]` raises TypeError, and the except clause returns
\* the empty result.  The service is only called when there are contents.
ProcessFail(t) ==
    /\ tasks[t].pc = "search"
    /\ \E result \in SearchResponses :
          /\ contents_of(scraped_contents_of(result)) # <<>>
          /\ tasks' = [tasks EXCEPT
                ![t].pc = "done", ![t].serp = result,
                ![t].new_urls = new_urls_of(result),
                ![t].extractor = "malformed",
                ![t].failed = TRUE, ![t].result = FailureResult]
    /\ semaphore' = [semaphore EXCEPT ![GateOf(Parent(t))] = @ + 1]
    /\ UNCHANGED <<limit, calls, rest>>

\* The body of process_query when the search has succeeded, the completion
\* service has answered with a list of learnings and with follow-up
\* questions that cannot be joined (not strings), and the branch is to
\* recurse: the progress is reported, building next_query raises TypeError,
\* and the except clause returns the empty result.
NextQueryFail(t) ==
    /\ tasks[t].pc = "search"
    /\ \E result \in SearchResponses, resp \in ExtractorResponses :
          LET p == Parent(t)
              c == calls[p]
              new_breadth == new_breadth_of(c.breadth)
              new_depth == new_depth_of(c.depth)
              extracted ==
                  process_serp_result(scraped_contents_of(result),
                                      NUM_LEARNINGS, new_breadth, resp)
              progress == report_deeper(c.progress, new_depth, new_breadth)
          IN
          /\ extractor_outcome(extracted, resp) = "ok"
          /\ ShouldRecurse(new_depth)
          /\ calls' = [calls EXCEPT
                ![p].progress = progress,
                ![p].reported = on_progress(@, progress)]
          /\ tasks' = [tasks EXCEPT
                ![t].pc = "done", ![t].serp = result,
                ![t].new_urls = new_urls_of(result),
                ![t].extractor = "unjoinable",
                ![t].processed = extracted.learnings,
                ![t].failed = TRUE, ![t].result = FailureResult]
    /\ semaphore' = [semaphore EXCEPT ![GateOf(Parent(t))] = @ + 1]
    /\ UNCHANGED <<limit, rest>>

\* a return from the recursion that gives up what the recursive call returned
Return_Dropped(t) ==
    /\ tasks[t].pc = "recurse"
    /\ calls[t].pc = "done"
    /\ tasks' = [tasks EXCEPT ![t].pc = "done", ![t].result = FailureResult]
    /\ semaphore' = [semaphore EXCEPT ![GateOf(Parent(t))] = @ + 1]
    /\ UNCHANGED <<limit, calls, rest>>

\* the recursive deep_research call of a branch returns
Return(t) ==
    /\ tasks[t].pc = "recurse"
    /\ calls[t].pc = "done"
    /\ tasks' = [tasks EXCEPT ![t].pc = "done", ![t].result = calls[t].ret]
    /\ semaphore' = [semaphore EXCEPT ![GateOf(Parent(t))] = @ + 1]
    /\ UNCHANGED <<limit, calls, rest>>

\* asyncio.gather returns: merge the results and return
Merge(p) ==
    /\ calls[p].pc = "gather"
    /\ GatherReady(p)
    /\ LET all_learnings ==
               merge_learnings(merge_seed(calls[p].learnings), Results(p))
           all_urls ==
               merge_urls(merge_seed(calls[p].visited_urls), Results(p))
       IN  \E ls \in ListsOf(all_learnings), us \in ListsOf(all_urls) :
              calls' = [calls EXCEPT
                  ![p].pc = "done",
                  ![p].ret = [learnings |-> ls, visited_urls |-> us]]
    /\ UNCHANGED <<limit, tasks, semaphore, rest>>

Next ==
    \/ \E p \in DOMAIN calls : Plan(p)
    \/ \E t \in DOMAIN tasks : Acquire(t)
    \/ \E t \in DOMAIN tasks : SearchFail(t)
    \/ \E t \in DOMAIN tasks : ProcessQuery(t)
    \/ \E t \in DOMAIN tasks : ProcessFail(t)
    \/ \E t \in DOMAIN tasks : NextQueryFail(t)
    \/ \E t \in DOMAIN tasks : Return(t)
    \/ \E p \in DOMAIN calls : Merge(p)

Spec == Init /\ [][Next]_vars

\* The root calls made without seed findings: whether a call returns does
\* not depend on the findings.
LiveInit == Init /\ calls[<<>>].learnings = <<>>

\* The event loop runs a task that is ready, and every service call returns
\* or fails in finite time.
FairSpec == LiveInit /\ [][Next]_vars /\ WF_vars(Next)

\* The text splitter alone: a splitter is constructed with any parameters
\* and, when the constructor accepts them, is given a text.
SegInit ==
    /\ trim = TrimIdle
    /\ unit = UnitIdle
    /\ limit = 2
    /\ calls = << >>
    /\ tasks = << >>
    /\ semaphore = << >>
    /\ \E text \in Texts, chunk_size \in 1..MaxChunkSize,
          chunk_overlap \in 0..MaxChunkSize, separators \in SeparatorLists :
          seg = [pc |-> "new", text |-> text, chunk_size |-> chunk_size,
                 chunk_overlap |-> chunk_overlap, separators |-> separators,
                 chunks |-> <<>>, raised |-> FALSE]

\* TextSplitter.__init__
Construct ==
    /\ seg.pc = "new"
    /\ seg' = [seg EXCEPT !.pc = IF init_raises(seg.chunk_size, seg.chunk_overlap)
                                 THEN "ValueError" ELSE "ready"]
    /\ UNCHANGED <<orch, trim, unit>>

\* splitter.split_text(text)
SplitText ==
    /\ seg.pc = "ready"
    /\ LET r == split_text(seg, seg.text) IN
       seg' = [seg EXCEPT !.pc = IF r.raised THEN "RecursionError" ELSE "done",
                          !.chunks = r.chunks, !.raised = r.raised]
    /\ UNCHANGED <<orch, trim, unit>>

SegNext == Construct \/ SplitText

SegSpec == SegInit /\ [][SegNext]_vars

\* The trimmer alone: trim_prompt is called on a prompt with a budget, and
\* once it has returned it is called on its result with the same budget.
TrimInit ==
    /\ seg = SegIdle
    /\ unit = UnitIdle
    /\ limit = 2
    /\ calls = << >>
    /\ tasks = << >>
    /\ semaphore = << >>
    /\ \E prompt \in Prompts, context_size \in Budgets,
          chars_per_token \in CharsPerToken, encoder \in Encoders :
          trim = [pc |-> "call", prompt |-> prompt,
                  context_size |-> context_size,
                  chars_per_token |-> chars_per_token, encoder |-> encoder,
                  arg |-> prompt, round |-> 1, depth |-> 0,
                  result |-> <<>>, how |-> "", first |-> <<>>]

\* one call of trim_prompt, on trim.arg
TrimPrompt ==
    /\ trim.pc = "call"
    /\ LET r == trim_prompt(trim.arg, trim.context_size,
                            trim.chars_per_token,
                            encoder_at(trim.encoder, trim.depth)) IN
       trim' = IF r.recurse
               THEN [trim EXCEPT !.arg = r.value, !.depth = @ + 1]
               ELSE [trim EXCEPT !.pc = "done", !.result = r.value,
                                 !.how = r.how]
    /\ UNCHANGED <<orch, seg, unit>>

\* trim_prompt(trim_prompt(prompt, context_size), context_size)
TrimAgain ==
    /\ trim.pc = "done"
    /\ trim.round = 1
    /\ trim' = [trim EXCEPT !.pc = "call", !.round = 2, !.depth = 0,
                            !.arg = trim.result, !.first = trim.result]
    /\ UNCHANGED <<orch, seg, unit>>

TrimNext == TrimPrompt \/ TrimAgain

TrimSpec == TrimInit /\ [][TrimNext]_vars

\* The planner, the extractor and the tool-server front-end, each called
\* on its own with any arguments and any answer of the service it calls.
UnitInit ==
    /\ seg = SegIdle
    /\ trim = TrimIdle
    /\ limit = 2
    /\ calls = << >>
    /\ tasks = << >>
    /\ semaphore = << >>
    /\ \/ \E response \in UnitPlannerResponses, num_queries \in 1..MaxQueries :
             unit = [pc |-> "call", op |-> "generate_serp_queries",
                     response |-> response, num_queries |-> num_queries,
                     ret |-> <<>>]
       \/ \E result \in Documents, response \in UnitExtractorResponses,
             num_learnings \in 1..(MaxItems - 1),
             num_follow_up_questions \in 1..(MaxItems - 1) :
             unit = [pc |-> "call", op |-> "process_serp_result",
                     result |-> result, response |-> response,
                     num_learnings |-> num_learnings,
                     num_follow_up_questions |-> num_follow_up_questions,
                     ret |-> <<>>]
       \/ \E has_query \in BOOLEAN, arguments \in Arguments :
             unit = [pc |-> "call", op |-> "deep_web_research",
                     has_query |-> has_query, arguments |-> arguments,
                     ret |-> <<>>]

GenerateSerpQueries ==
    /\ unit.pc = "call"
    /\ unit.op = "generate_serp_queries"
    /\ unit' = [unit EXCEPT
          !.pc = "done",
          !.ret = generate_serp_queries(unit.response, unit.num_queries)]
    /\ UNCHANGED <<orch, seg, trim>>

ProcessSerpResult ==
    /\ unit.pc = "call"
    /\ unit.op = "process_serp_result"
    /\ unit' = [unit EXCEPT
          !.pc = "done",
          !.ret = process_serp_result(unit.result, unit.num_learnings,
                                      unit.num_follow_up_questions,
                                      unit.response)]
    /\ UNCHANGED <<orch, seg, trim>>

DeepWebResearch ==
    /\ unit.pc = "call"
    /\ unit.op = "deep_web_research"
    /\ unit' = [unit EXCEPT
          !.pc = "done",
          !.ret = deep_web_research(unit.has_query, unit.arguments)]
    /\ UNCHANGED <<orch, seg, trim>>

UnitNext == GenerateSerpQueries \/ ProcessSerpResult \/ DeepWebResearch

UnitSpec == UnitInit /\ [][UnitNext]_vars

\* ---------------------------------------------------------------- claims
Root == <<>>
Children(p) == {t \in DOMAIN tasks : Parent(t) = p}
\* a branch body that has acquired its slot and has not finished
InFlight(t) == tasks[t].pc \in {"search", "recurse"}
InFlightOf(p) == {t \in Children(p) : InFlight(t)}
TotalInFlight == Cardinality({t \in DOMAIN tasks : InFlight(t)})
Returned(p) == calls[p].pc = "done"
\* the calls that planned a non-empty set of queries and ran its branches
RanBranches == {p \in DOMAIN calls : calls[p].n > 0}
Levels == Cardinality({Len(p) : p \in RanBranches})
\* the levels of the tree when every call made counts for one
CallLevels == Cardinality({Len(p) : p \in DOMAIN calls})

\* C10: every chunk split_text returns is at most chunk_size long.
C10_ChunkSizeBound ==
    seg.pc = "done" => \A i \in DOMAIN seg.chunks : Len(seg.chunks[i]) <= seg.chunk_size

\* C1 (as stated): the number of branch bodies in flight, counted across
\* all levels of the call tree, never exceeds the capacity.
C1_TreeWideBound == TotalInFlight <= limit

\* C1 (amended): every call creates a gate of its own, so the capacity bounds
\* the in-flight branches of each single call, and the in-flight branches of
\* the whole tree by the capacity times the number of calls that are running
\* branches.
C1_PerCallBound ==
    /\ \A p \in DOMAIN calls : Cardinality(InFlightOf(p)) <= limit
    /\ TotalInFlight <=
          limit * Cardinality({p \in DOMAIN calls : calls[p].pc = "gather"})

\* a call with all its slots taken and a branch waiting, while its recursive
\* sub-tree has branches in flight too
C1_Witness ==
    \E p \in DOMAIN calls :
        /\ Cardinality(InFlightOf(p)) = limit
        /\ \E t \in Children(p) : tasks[t].pc = "wait"
        /\ TotalInFlight > limit

\* C2: a call's result is its seed united with the results of the branches
\* that did not fail; a failed branch contributes the empty result and its
\* siblings return what they would have returned anyway.
C2_FailureIsolation ==
    \A p \in DOMAIN calls :
        (Returned(p) /\ calls[p].n > 0) =>
            LET ok == {t \in Children(p) : ~tasks[t].failed} IN
            /\ SetOf(calls[p].ret.learnings) =
                  SetOf(calls[p].learnings) \cup
                  UNION {SetOf(tasks[t].result.learnings) : t \in ok}
            /\ SetOf(calls[p].ret.visited_urls) =
                  SetOf(calls[p].visited_urls) \cup
                  UNION {SetOf(tasks[t].result.visited_urls) : t \in ok}
            /\ \A t \in Children(p) \ ok :
                  tasks[t].result = [learnings |-> <<>>, visited_urls |-> <<>>]
            /\ \A t \in ok :
                  IF t \in DOMAIN calls
                  THEN tasks[t].result = calls[t].ret
                  ELSE tasks[t].result =
                         [learnings |-> calls[p].learnings \o tasks[t].processed,
                          visited_urls |->
                              calls[p].visited_urls \o tasks[t].new_urls]

\* a returned call with a non-empty seed all of whose branches failed, and
\* a returned call with a failed branch beside one that brought a finding
C2_Witness ==
    /\ \E p \in DOMAIN calls :
          /\ Returned(p) /\ calls[p].n > 0
          /\ calls[p].learnings # <<>>
          /\ \A t \in Children(p) : tasks[t].failed
    /\ \E p \in DOMAIN calls :
          /\ Returned(p)
          /\ \E t, u \in Children(p) :
                /\ tasks[t].failed
                /\ ~tasks[u].failed
                /\ SetOf(tasks[u].result.visited_urls) # SetOf(calls[p].visited_urls)

\* C3 (as stated): when the root call has returned, the call tree has
\* exactly `depth` levels, whether a level is counted for every call made
\* or only for the calls that ran branches.
C3_ExactlyDepthLevels ==
    Returned(Root) =>
        (Levels = calls[Root].depth \/ CallLevels = calls[Root].depth)

\* C3 (amended): the call at level k (the root at level 0) has depth
\* `depth - k`, the tree has at most max(1, depth) levels (depth 0 still
\* runs one level), and a branch makes the call of the next level exactly
\* when it did not fail and its call's depth is at least 2.
C3_AtMostDepthLevels ==
    /\ \A p \in DOMAIN calls :
          /\ Len(p) + 1 <= Max(1, calls[Root].depth)
          /\ calls[p].depth = calls[Root].depth - Len(p)
    /\ Levels <= Max(1, calls[Root].depth)
    /\ CallLevels <= Max(1, calls[Root].depth)
    /\ \A t \in DOMAIN tasks :
          (t \in DOMAIN calls) <=>
              /\ tasks[t].pc \in {"recurse", "done"}
              /\ ~tasks[t].failed
              /\ calls[Parent(t)].depth >= 2

\* the root has returned from a tree of `depth` >= 2 levels
C3_Witness ==
    /\ Returned(Root)
    /\ calls[Root].depth >= 2
    /\ Levels = calls[Root].depth

\* C4: the call at level k has breadth max(1, floor(initialBreadth / 2^k)),
\* asks the planner for at most that many queries, and has a breadth no
\* larger than its parent's.
C4_BreadthAtLevel ==
    \A p \in DOMAIN calls :
        /\ calls[p].breadth =
              Max(1, calls[Root].breadth \div Pow2(Len(p)))
        /\ calls[p].n <= calls[p].breadth
        /\ p # Root => calls[p].breadth <= calls[Parent(p)].breadth

\* a call below the root whose breadth is halved and still above 1, and
\* whose planner returned as many queries as it was asked for
C4_Witness ==
    \E p \in DOMAIN calls :
        /\ Len(p) >= 1
        /\ calls[p].breadth >= 2
        /\ calls[p].breadth < calls[Root].breadth
        /\ calls[p].n = calls[p].breadth

\* C5: every research call eventually returns.
C5_EventuallyReturns == <>Returned(Root)

\* the root has returned although a call had more branches than slots and
\* a branch held its slot while its recursive call ran branches of its own
C5_Witness ==
    /\ Returned(Root)
    /\ \E p \in DOMAIN calls : calls[p].n > limit
    /\ \E p \in RanBranches : p # Root

Perms(n) == {f \in [1..n -> 1..n] : \A i, j \in 1..n : f[i] = f[j] => i = j}

\* C6: merging the branch results of a returned call in any order gives
\* the sets the call returned.
C6_MergeCommutes ==
    \A p \in DOMAIN calls :
        (Returned(p) /\ calls[p].n > 0) =>
            \A f \in Perms(calls[p].n) :
                LET permuted == [i \in 1..calls[p].n |-> Results(p)[f[i]]] IN
                /\ merge_learnings(merge_seed(calls[p].learnings), permuted)
                     = SetOf(calls[p].ret.learnings)
                /\ merge_urls(merge_seed(calls[p].visited_urls), permuted)
                     = SetOf(calls[p].ret.visited_urls)

\* a returned call with two branches whose results differ in both parts
C6_Witness ==
    \E p \in DOMAIN calls :
        /\ Returned(p)
        /\ \E t, u \in Children(p) :
              /\ SetOf(tasks[t].result.learnings) # SetOf(tasks[u].result.learnings)
              /\ SetOf(tasks[t].result.visited_urls) #
                     SetOf(tasks[u].result.visited_urls)
              /\ ~tasks[t].failed /\ ~tasks[u].failed

\* C7: the findings and the sources a call returns hold no entry twice.
C7_NoDuplicates ==
    \A p \in DOMAIN calls :
        Returned(p) =>
            /\ NoDuplicates(calls[p].ret.learnings)
            /\ NoDuplicates(calls[p].ret.visited_urls)

\* C8: a call whose plan is empty returns exactly the findings and sources
\* it was given, and has made no branch (no search, no extraction) and no
\* recursive call.
C8_EmptyPlanReturnsSeed ==
    \A p \in DOMAIN calls :
        (Returned(p) /\ calls[p].n = 0) =>
            /\ calls[p].ret.learnings = calls[p].learnings
            /\ calls[p].ret.visited_urls = calls[p].visited_urls
            /\ Children(p) = {}
            /\ \A q \in DOMAIN calls : q # Root => Parent(q) # p

\* a recursive call with a non-empty seed has returned on the empty plan
C8_Witness ==
    \E p \in DOMAIN calls :
        /\ p # Root
        /\ Returned(p) /\ calls[p].n = 0
        /\ calls[p].learnings # <<>> /\ calls[p].visited_urls # <<>>

\* C9: when a call has returned, every branch below it, and every call
\* below it, has finished.
C9_ReturnsAfterSubtree ==
    \A p \in DOMAIN calls :
        Returned(p) =>
            \A t \in DOMAIN tasks :
                (IsPrefix(p, t) /\ t # p) =>
                    /\ tasks[t].pc = "done"
                    /\ t \in DOMAIN calls => Returned(t)

\* a call has returned that had several branches, one of which recursed
C9_Witness ==
    \E p \in DOMAIN calls :
        /\ Returned(p) /\ calls[p].n >= 2
        /\ \E t \in Children(p) : t \in RanBranches

\* the pieces and the separator of the merge split_text(seg.text) makes at
\* its top level when every piece is shorter than chunk_size
TopSeparator ==
    first_separator(seg.separators, seg.text,
                    seg.separators[Len(seg.separators)])
TopSplits ==
    IF TopSeparator # <<>> THEN split(seg.text, TopSeparator)
    ELSE [i \in 1..Len(seg.text) |-> <<seg.text[i]>>]
OneMerge ==
    /\ seg.pc = "done"
    /\ \A i \in DOMAIN TopSplits : Len(TopSplits[i]) < seg.chunk_size
\* the text two adjacent chunks share: the carried pieces, joined, without
\* the white space the chunks are stripped of
Overlaps ==
    LET carried == carried_loop(seg, TopSplits, TopSeparator, <<>>, 0) IN
    [i \in DOMAIN carried |-> strip(join(carried[i], TopSeparator))]

\* C11: two adjacent chunks of one merge share at most chunk_overlap
\* characters, and no text when chunk_overlap is 0.
C11_OverlapBound ==
    OneMerge => \A i \in DOMAIN Overlaps : Len(Overlaps[i]) <= seg.chunk_overlap

\* C14: constructing a splitter with chunk_overlap >= chunk_size raises the
\* configuration error, after which nothing is split; with chunk_overlap <
\* chunk_size the construction succeeds and only then is a text split.
C14_ConstructorRejects ==
    [][/\ seg.pc = "new" =>
             seg'.pc = IF seg.chunk_overlap >= seg.chunk_size
                       THEN "ValueError" ELSE "ready"
       /\ seg.pc = "ValueError" => seg' = seg
       /\ seg'.chunks # seg.chunks =>
             seg.pc = "ready" /\ seg.chunk_overlap < seg.chunk_size]_vars

\* the constructor has rejected an overlap equal to the chunk size, with a
\* text at hand that was not split
C14_Witness ==
    /\ seg.pc = "ValueError"
    /\ seg.chunk_overlap = seg.chunk_size
    /\ seg.text # <<>> /\ seg.chunks = <<>>

\* the first trim_prompt call has returned
Trimmed == trim.pc = "done" /\ trim.round = 1
\* the call on its result has returned too
TrimmedTwice == trim.pc = "done" /\ trim.round = 2

\* C12: trim_prompt(trim_prompt(p, B), B) = trim_prompt(p, B).
C12_Idempotent == TrimmedTwice => trim.result = trim.first

\* a prompt that took more than one cut has been trimmed twice
C12_Witness ==
    /\ TrimmedTwice
    /\ trim.encoder = "ok"
    /\ trim.first # trim.prompt /\ trim.first # <<>>
    /\ Len(trim.first) > MIN_CHUNK_SIZE

\* C13 (as stated): with a working token counter, the result has at most
\* context_size tokens or is exactly MIN_CHUNK_SIZE characters long.
C13_BudgetOrExactFloor ==
    (Trimmed /\ trim.encoder = "ok") =>
        \/ num_tokens(trim.result, trim.chars_per_token) <= trim.context_size
        \/ Len(trim.result) = MIN_CHUNK_SIZE

\* C13 (amended): the result has at most context_size tokens, or it is the
\* first MIN_CHUNK_SIZE characters of the text the trimmer had reached
\* (all of it when it is shorter than that), or the token counter failed
\* and the result is the first 3 * context_size characters of the text the
\* trimmer had reached (the prompt, when the counter fails from the start).
C13_BudgetOrFloor ==
    Trimmed =>
        \/ num_tokens(trim.result, trim.chars_per_token) <= trim.context_size
        \/ /\ encoder_at(trim.encoder, trim.depth) = "ok"
           /\ trim.result = prefix(trim.arg, MIN_CHUNK_SIZE)
           /\ Len(trim.result) = Min(MIN_CHUNK_SIZE, Len(trim.arg))
        \/ /\ encoder_at(trim.encoder, trim.depth) = "error"
           /\ trim.result = prefix(trim.arg, 3 * trim.context_size)
           /\ trim.encoder = "error" => trim.arg = trim.prompt

\* a prompt shorter than the floor and over the budget came back whole
C13_Witness ==
    /\ Trimmed
    /\ trim.encoder = "ok"
    /\ trim.result = trim.prompt
    /\ Len(trim.result) < MIN_CHUNK_SIZE
    /\ num_tokens(trim.result, trim.chars_per_token) > trim.context_size

UnitDone(op) == unit.pc = "done" /\ unit.op = op

\* C15: the planner returns at most num_queries queries: the first
\* num_queries of the response, in the order of the response.
C15_FirstMaxQueries ==
    (UnitDone("generate_serp_queries") /\ ~unit.response.error) =>
        /\ Len(unit.ret) <= unit.num_queries
        /\ Len(unit.ret) = Min(unit.num_queries, Len(unit.response.queries))
        /\ \A i \in DOMAIN unit.ret : unit.ret[i] = unit.response.queries[i]

\* the planner has cut a response that is longer than num_queries and not
\* in increasing order
C15_Witness ==
    /\ UnitDone("generate_serp_queries")
    /\ Len(unit.response.queries) > unit.num_queries
    /\ unit.num_queries >= 2
    /\ unit.ret[1] > unit.ret[2]

\* C16: the extractor returns at most num_learnings learnings and at most
\* num_follow_up_questions follow-up questions.
C16_AtMostRequested ==
    UnitDone("process_serp_result") =>
        /\ Len(unit.ret.learnings) <= unit.num_learnings
        /\ Len(unit.ret.follow_up_questions) <= unit.num_follow_up_questions

\* no document has markdown or content
NoContent(result) ==
    \A i \in DOMAIN result : result[i].markdown = "" /\ result[i].content = ""

\* C17: when no document has content, the extractor returns no learnings
\* and no follow-up questions and has not called the completion service.
C17_NoContentNoCall ==
    (UnitDone("process_serp_result") /\ NoContent(unit.result)) =>
        /\ unit.ret.learnings = <<>>
        /\ unit.ret.follow_up_questions = <<>>
        /\ unit.ret.generate_object_calls = 0

\* the extractor has returned on two documents without content, where the
\* completion service would have answered with learnings
C17_Witness ==
    /\ UnitDone("process_serp_result")
    /\ Len(unit.result) = 2 /\ NoContent(unit.result)
    /\ unit.response.learnings # <<>>
    /\ unit.ret.learnings = <<>>

\* r is the number of lo..hi nearest to value
Nearest(lo, hi, value, r) ==
    /\ r \in lo..hi
    /\ \A b \in lo..hi :
          (b - value) * (b - value) >= (r - value) * (r - value)

\* C19: the front-end calls deep_research with breadth in 1..10 and depth
\* in 1..5, each the number of that range nearest to the number the client
\* sent.
C19_Clamped ==
    (UnitDone("deep_web_research") /\ unit.ret.deep_research) =>
        /\ unit.ret.breadth \in 1..10
        /\ unit.ret.depth \in 1..5
        /\ "breadth" \in DOMAIN unit.arguments =>
              Nearest(1, 10, unit.arguments["breadth"], unit.ret.breadth)
        /\ "depth" \in DOMAIN unit.arguments =>
              Nearest(1, 5, unit.arguments["depth"], unit.ret.depth)

\* deep_research has been called for a client that sent a breadth below
\* the range and a depth above it
C19_Witness ==
    /\ UnitDone("deep_web_research") /\ unit.ret.deep_research
    /\ "breadth" \in DOMAIN unit.arguments /\ unit.arguments["breadth"] < 1
    /\ "depth" \in DOMAIN unit.arguments /\ unit.arguments["depth"] > 5

\* the urls of the items a search returned
UrlsOf(serp) == {serp[i].url : i \in DOMAIN serp} \ {""}

\* C18: a call with depth 1 none of whose branches failed returns the seed
\* findings united with the findings extracted by every branch, and the
\* seed sources united with the urls every branch's search returned.
C18_DepthOneUnion ==
    \A p \in DOMAIN calls :
        (/\ Returned(p)
         /\ calls[p].depth = 1
         /\ \A t \in Children(p) : ~tasks[t].failed) =>
            /\ SetOf(calls[p].ret.learnings) =
                  SetOf(calls[p].learnings) \cup
                  UNION {SetOf(tasks[t].processed) : t \in Children(p)}
            /\ SetOf(calls[p].ret.visited_urls) =
                  SetOf(calls[p].visited_urls) \cup
                  UNION {UrlsOf(tasks[t].serp) : t \in Children(p)}

\* the root, called with depth 1 and no seed, has returned the one finding
\* and the one url of its one branch
C18_Witness ==
    /\ Returned(Root) /\ calls[Root].depth = 1 /\ calls[Root].n = 1
    /\ calls[Root].learnings = <<>> /\ calls[Root].visited_urls = <<>>
    /\ ~tasks[<<1>>].failed
    /\ calls[Root].ret = [learnings |-> <<"f1">>, visited_urls |-> <<"u1">>]

\* C20: every recursive call has its parent's depth minus 1, which is at
\* least 1, and a branch whose new depth is 0 or less makes no call.
C20_DepthInvariant ==
    /\ \A p \in DOMAIN calls :
          p # Root =>
              /\ calls[p].depth = calls[Parent(p)].depth - 1
              /\ calls[p].depth >= 1
    /\ \A t \in DOMAIN tasks :
          calls[Parent(t)].depth - 1 <= 0 =>
              /\ t \notin DOMAIN calls
              /\ tasks[t].pc # "recurse"

\* a branch of a recursive call with depth 1 has returned without a call of
\* its own, below a root of depth 2
C20_Witness ==
    \E t \in DOMAIN tasks :
        /\ Len(t) = 2
        /\ calls[Parent(t)].depth = 1
        /\ calls[Root].depth = 2
        /\ tasks[t].pc = "done" /\ ~tasks[t].failed
        /\ t \notin DOMAIN calls

\* the branches of call p that have passed the gate, finished or not
Started(p) == {t \in Children(p) : tasks[t].pc # "wait"}
\* a branch that has finished, its recursive call, if it made one, returned
Finished(t) == tasks[t].pc = "done" /\ (t \in DOMAIN calls => Returned(t))

\* C21: of the branches of one call at most `limit` are past the gate and not
\* finished, a recursing branch counting until its recursive call returns;
\* a branch enters its search only when fewer than `limit` of its siblings
\* are in flight, so a branch beyond the capacity enters only after a branch
\* of the same call that entered earlier has finished with its sub-tree.
C21_GateOrder ==
    /\ [](\A p \in DOMAIN calls :
            /\ Cardinality(InFlightOf(p)) <= limit
            /\ \A t \in Children(p) :
                  (t \in DOMAIN calls /\ ~Returned(t)) => InFlight(t))
    /\ [][\A t \in DOMAIN tasks :
            (tasks[t].pc = "wait" /\ tasks'[t].pc = "search") =>
                /\ Cardinality(InFlightOf(Parent(t))) < limit
                /\ Cardinality(Started(Parent(t))) >= limit =>
                      \E u \in Started(Parent(t)) : Finished(u)]_vars

\* a branch beyond the capacity is searching after a sibling that recursed
\* has finished
C21_Witness ==
    \E p \in DOMAIN calls : \E t, u \in Children(p) :
        /\ tasks[t].pc = "search"
        /\ Cardinality(Started(p)) > limit
        /\ u \in DOMAIN calls /\ Finished(u)

\* C22: the slots held of a gate are those of the branches in flight, so
\* they are never more than the capacity nor fewer than none, whichever way
\* a branch ends (terminal return, return from the recursion, failure), and
\* a call that has returned has left all the slots of its gate free.
C22_SlotsReleased ==
    \A p \in DOMAIN semaphore :
        /\ 0 <= semaphore[p] /\ semaphore[p] <= limit
        /\ limit - semaphore[p] = Cardinality(InFlightOf(p))
        /\ Returned(p) => semaphore[p] = limit

\* the whole tree has returned after a branch failed, a branch returned from
\* its recursion and a branch returned at the last level
C22_Witness ==
    /\ Returned(Root)
    /\ \A p \in DOMAIN semaphore : semaphore[p] = limit
    /\ \E t \in DOMAIN tasks : tasks[t].failed
    /\ \E t \in DOMAIN tasks : t \in DOMAIN calls /\ tasks[t].pc = "done"
    /\ \E t \in DOMAIN tasks :
          t \notin DOMAIN calls /\ tasks[t].pc = "done" /\ ~tasks[t].failed

\* the branches of call p other than t that did not fail
OtherBranches(p, t) == {s \in Children(p) \ {t} : ~tasks[s].failed}

\* C23: a branch that fails returns the empty result and makes no recursive
\* call; a finding it extracted or a source it discovered before it failed
\* is in the result of its call only when the seed of the call or the result
\* of another branch holds it.
C23_FailedBranchCarriesNothing ==
    \A t \in DOMAIN tasks :
        tasks[t].failed =>
            /\ tasks[t].pc = "done"
            /\ tasks[t].result.learnings = <<>>
            /\ tasks[t].result.visited_urls = <<>>
            /\ t \notin DOMAIN calls
            /\ Returned(Parent(t)) =>
                  LET p == Parent(t) IN
                  /\ \A u \in SetOf(tasks[t].new_urls) \cap
                                SetOf(calls[p].ret.visited_urls) :
                        \/ u \in SetOf(calls[p].visited_urls)
                        \/ \E s \in OtherBranches(p, t) :
                              u \in SetOf(tasks[s].result.visited_urls)
                  /\ \A f \in SetOf(tasks[t].processed) \cap
                                SetOf(calls[p].ret.learnings) :
                        \/ f \in SetOf(calls[p].learnings)
                        \/ \E s \in OtherBranches(p, t) :
                              f \in SetOf(tasks[s].result.learnings)

\* a branch failed after it had extracted a finding and discovered a source,
\* and its call, seeded with neither, has returned without them although a
\* sibling returned something else
C23_Witness ==
    \E t \in DOMAIN tasks :
        /\ tasks[t].failed
        /\ tasks[t].processed # <<>> /\ tasks[t].new_urls # <<>>
        /\ Returned(Parent(t))
        /\ calls[Parent(t)].ret.visited_urls # <<>>
        /\ SetOf(tasks[t].new_urls) \cap
              SetOf(calls[Parent(t)].ret.visited_urls) = {}
        /\ SetOf(tasks[t].processed) \cap
              SetOf(calls[Parent(t)].ret.learnings) = {}

\* the branches that completed search and extraction and made their
\* recursive call
Recursed == DOMAIN tasks \cap DOMAIN calls

\* C24: what a branch that recursed has extracted and discovered is in the
\* result of every call above it that has returned, the root's included,
\* whatever became of the calls and branches below it.
C24_AncestorFindingsSurvive ==
    \A p \in DOMAIN calls :
        Returned(p) =>
            \A t \in Recursed :
                (IsPrefix(p, t) /\ t # p) =>
                    /\ SetOf(tasks[t].processed) \subseteq
                          SetOf(calls[p].ret.learnings)
                    /\ SetOf(tasks[t].new_urls) \subseteq
                          SetOf(calls[p].ret.visited_urls)

\* the root, seeded with nothing, has returned the finding and the source of
\* a branch whose recursive call planned queries and saw every branch fail
C24_Witness ==
    /\ Returned(Root)
    /\ calls[Root].learnings = <<>> /\ calls[Root].visited_urls = <<>>
    /\ \E t \in Recursed :
          /\ tasks[t].processed # <<>> /\ tasks[t].new_urls # <<>>
          /\ calls[t].n > 0
          /\ \A s \in Children(t) : tasks[s].failed
          /\ calls[Root].ret.learnings = tasks[t].processed
          /\ calls[Root].ret.visited_urls = tasks[t].new_urls

\* C25: a branch whose extractor met a failure of the completion service
\* does not fail: it has no findings and no follow-up questions, it adds the
\* sources it discovered to those of its call, and it recurses, with a
\* continuation query without follow-up questions, exactly when the depth
\* left for the recursion is positive.
C25_ExtractorFailureContained ==
    \A t \in DOMAIN tasks :
        tasks[t].extractor = "error" =>
            LET c == calls[Parent(t)]
                all_urls == c.visited_urls \o new_urls_of(tasks[t].serp)
            IN
            /\ ~tasks[t].failed
            /\ tasks[t].processed = <<>>
            /\ tasks[t].next_query = <<>>
            /\ IF c.depth - 1 > 0
               THEN /\ t \in DOMAIN calls
                    /\ calls[t].learnings = c.learnings
                    /\ calls[t].visited_urls = all_urls
               ELSE /\ t \notin DOMAIN calls
                    /\ tasks[t].pc = "done"
                    /\ tasks[t].result =
                          [learnings |-> c.learnings, visited_urls |-> all_urls]

\* the extractor of a branch met a failure of the completion service, the
\* branch recursed with the source it discovered, and the call has returned
\* that source
C25_Witness ==
    \E t \in Recursed :
        /\ tasks[t].extractor = "error"
        /\ tasks[t].new_urls # <<>>
        /\ Returned(Parent(t))
        /\ SetOf(tasks[t].new_urls) \subseteq
              SetOf(calls[Parent(t)].ret.visited_urls)
        /\ ~(SetOf(tasks[t].new_urls) \subseteq
                SetOf(calls[Parent(t)].visited_urls))

\* C26: the recursive call of a branch is seeded with the seed of the
\* branch's call followed by what that branch itself extracted and
\* discovered, with breadth max(1, breadth div 2) and depth - 1, and the
\* branch returns what its recursive call returned.
C26_ChildSeed ==
    \A t \in Recursed :
        LET c == calls[Parent(t)] IN
        /\ calls[t].learnings = c.learnings \o tasks[t].processed
        /\ calls[t].visited_urls = c.visited_urls \o tasks[t].new_urls
        /\ calls[t].breadth =
              (IF c.breadth \div 2 >= 1 THEN c.breadth \div 2 ELSE 1)
        /\ calls[t].depth = c.depth - 1
        /\ tasks[t].pc \in {"recurse", "done"}
        /\ tasks[t].pc = "done" =>
              Returned(t) /\ tasks[t].result = calls[t].ret

\* two branches of a seeded call have recursed with different findings and
\* sources, and one of them has returned what its recursive call returned
C26_Witness ==
    \E t, u \in Recursed :
        /\ Parent(t) = Parent(u)
        /\ calls[Parent(t)].learnings # <<>>
        /\ tasks[t].processed # tasks[u].processed
        /\ tasks[t].new_urls # tasks[u].new_urls
        /\ tasks[t].pc = "done"
        /\ calls[t].ret.learnings # calls[t].learnings

\* the branches of call p that have reached the step that recurses or
\* returns at the last level: those that did not fail, and those that
\* failed building the continuation query, after their report
Reached(p) ==
    {t \in Children(p) :
        /\ tasks[t].pc \in {"recurse", "done"}
        /\ ~tasks[t].failed \/ tasks[t].extractor = "unjoinable"}

\* C27: completed_queries of a call counts the branches of the call that
\* have reached the step that recurses or returns at the last level, at
\* every moment and so when the call returns, in whatever order the
\* branches ran.
C27_NoLostIncrement ==
    \A p \in DOMAIN calls :
        /\ calls[p].progress.completed_queries = Cardinality(Reached(p))
        /\ (Returned(p) /\ calls[p].n > 0) =>
              calls[p].progress.completed_queries =
                 Cardinality({t \in Children(p) :
                     ~tasks[t].failed \/ tasks[t].extractor = "unjoinable"})

\* a call has returned with three branches, of which one failed in its
\* search and two were counted
C27_Witness ==
    \E p \in DOMAIN calls :
        /\ Returned(p) /\ calls[p].n = 3
        /\ calls[p].progress.completed_queries = 2
        /\ \E t \in Children(p) : tasks[t].failed /\ tasks[t].serp = <<>>

\* C28: in the progress of every call, completed_queries lies between 0 and
\* total_queries, total_queries is the number of queries planned once the
\* planning is done (and 0 before), current_depth lies between 0 and
\* total_depth, and completed_queries never decreases.
C28_ProgressBounds ==
    /\ [](\A p \in DOMAIN calls :
            LET progress == calls[p].progress IN
            /\ 0 <= progress.completed_queries
            /\ progress.completed_queries <= progress.total_queries
            /\ progress.total_queries = calls[p].n
            /\ calls[p].pc # "plan" => calls[p].n = Cardinality(Children(p))
            /\ 0 <= progress.current_depth
            /\ progress.current_depth <= progress.total_depth
            /\ progress.total_depth = calls[p].depth)
    /\ [][\A p \in DOMAIN calls :
            calls'[p].progress.completed_queries >=
                calls[p].progress.completed_queries]_vars

\* a call of depth 2 that planned two queries has one branch in its
\* recursion and the other not yet counted
C28_Witness ==
    \E p \in DOMAIN calls :
        /\ calls[p].progress.total_queries = 2
        /\ calls[p].progress.completed_queries = 1
        /\ calls[p].progress.current_depth = 1
        /\ calls[p].progress.total_depth = 2
        /\ \E t \in Children(p) : tasks[t].pc = "recurse"

\* C29: the callback of a call has been invoked once when the planning of
\* the call was done and once for each branch that entered a deeper level or
\* became terminal, each time with the counters as they were at that
\* transition: the i-th invocation carries i - 1 completed queries and the
\* number of queries planned, and the last one the present counters.
C29_ReportedAtEveryTransition ==
    \A p \in DOMAIN calls :
        LET reported == calls[p].reported IN
        /\ Len(reported) =
              (IF calls[p].pc = "plan" THEN 0 ELSE 1) + Cardinality(Reached(p))
        /\ \A i \in DOMAIN reported :
              /\ reported[i].completed_queries = i - 1
              /\ reported[i].total_queries = calls[p].n
        /\ reported # <<>> => reported[Len(reported)] = calls[p].progress

\* the items of a search result that have both a url and content
Documented(serp) ==
    {i \in DOMAIN serp : serp[i].url # "" /\ serp[i].content # ""}

\* C30: a branch whose search succeeded and that did not fail afterwards
\* hands on, after the sources of its call, the url of every item that has
\* one, in the order of the search result, whether or not the item has
\* content and whether or not findings were extracted; when no item has both
\* a url and content the extractor is given nothing and is not asked.
C30_EveryUrlIsASource ==
    \A t \in DOMAIN tasks :
        (tasks[t].pc \in {"recurse", "done"} /\ ~tasks[t].failed) =>
            LET serp == tasks[t].serp
                withUrl == SelectSeq(serp, LAMBDA item : item.url # "")
                all_urls == calls[Parent(t)].visited_urls \o tasks[t].new_urls
            IN
            /\ serp # <<>>
            /\ Len(tasks[t].new_urls) = Len(withUrl)
            /\ \A i \in DOMAIN withUrl : tasks[t].new_urls[i] = withUrl[i].url
            /\ IF t \in DOMAIN calls
               THEN calls[t].visited_urls = all_urls
               ELSE tasks[t].result.visited_urls = all_urls
            /\ Documented(serp) = {} =>
                  tasks[t].extractor = "none" /\ tasks[t].processed = <<>>
            /\ Documented(serp) # {} => tasks[t].extractor # "none"

\* a search returned an item with content and no url and an item with a url
\* and no content; the branch extracted nothing, and its call, which did not
\* have that url, has returned it
C30_Witness ==
    \E t \in DOMAIN tasks :
        /\ ~tasks[t].failed /\ tasks[t].pc = "done"
        /\ \E i \in DOMAIN tasks[t].serp :
              tasks[t].serp[i].url = "" /\ tasks[t].serp[i].content # ""
        /\ tasks[t].new_urls = <<"u2">>
        /\ tasks[t].extractor = "none"
        /\ Returned(Parent(t))
        /\ "u2" \notin SetOf(calls[Parent(t)].visited_urls)
        /\ "u2" \in SetOf(calls[Parent(t)].ret.visited_urls)

\* the branches that have called the search service, whether the call
\* returned or raised
Searched == {t \in DOMAIN tasks : tasks[t].pc \in {"recurse", "done"}}

\* b_0 * b_1 * ... * b_k with b_j = max(1, floor(b / 2^j))
RECURSIVE LevelProduct(_, _)
LevelProduct(b, k) ==
    IF k < 0 THEN 1 ELSE Max(1, b \div Pow2(k)) * LevelProduct(b, k - 1)

\* the sum over k = 0..d-1 of LevelProduct(b, k)
RECURSIVE SearchBound(_, _)
SearchBound(b, d) ==
    IF d <= 0 THEN 0 ELSE LevelProduct(b, d - 1) + SearchBound(b, d - 1)

\* C31: in a call tree whose root has breadth b >= 1 and depth d >= 1, the
\* branches at level k, each of which calls the search service at most
\* once, are at most b_0 * ... * b_k, no branch lies at level d or deeper,
\* and so the search calls made are at most the sum of these products over
\* k = 0..d-1.
C31_SearchCallBound ==
    (calls[Root].breadth >= 1 /\ calls[Root].depth >= 1) =>
        LET b == calls[Root].breadth
            d == calls[Root].depth
        IN
        /\ \A t \in DOMAIN tasks : Len(t) - 1 <= d - 1
        /\ \A k \in 0..(d - 1) :
              Cardinality({t \in DOMAIN tasks : Len(t) - 1 = k}) <=
                  LevelProduct(b, k)
        /\ Cardinality(Searched) <= SearchBound(b, d)

\* a tree of depth 2 has returned after as many search calls as the bound
\* allows, some of them made by the branches of a recursive call
C31_Witness ==
    /\ Returned(Root)
    /\ calls[Root].depth = 2
    /\ Cardinality(Searched) =
          SearchBound(calls[Root].breadth, calls[Root].depth)
    /\ \E t \in Searched : Len(t) = 2

\* the separator list of the splitter ends with the empty separator
EndsWithEmpty(separators) ==
    separators # <<>> /\ separators[Len(separators)] = <<>>

\* C32: a splitter with chunk_size > chunk_overlap >= 0 whose separator list
\* ends with the empty separator never calls split_text on the text it was
\* called with, so that every split_text returns.
C32_SplitTerminates ==
    (/\ seg.chunk_size > seg.chunk_overlap
     /\ seg.chunk_overlap >= 0
     /\ EndsWithEmpty(seg.separators)) =>
        /\ seg.pc # "RecursionError"
        /\ ~seg.raised

\* chunk is the part of text that starts at position i
Occurs(text, chunk, i) ==
    /\ i + Len(chunk) - 1 <= Len(text)
    /\ SubSeq(text, i, i + Len(chunk) - 1) = chunk

\* the chunks are parts of the text whose starts, from position `from` on,
\* do not go backwards
RECURSIVE InOrder(_, _, _)
InOrder(text, chunks, from) ==
    IF chunks = <<>> THEN TRUE
    ELSE LET found == {i \in from..Len(text) : Occurs(text, Head(chunks), i)}
         IN  /\ found # {}
             /\ InOrder(text, Tail(chunks),
                        CHOOSE i \in found : \A j \in found : i <= j)

\* a character split_text may leave out between chunks: white space, which
\* strip removes, or a character of one of the separators
Removable(separators, c) ==
    \/ IsWhitespace(c)
    \/ \E k \in DOMAIN separators : Contains(separators[k], <<c>>)

\* from position `from` on, the text is the chunks one after the other, each
\* character once, with only removable characters before, between and after
\* them
RECURSIVE Exact(_, _, _, _)
Exact(separators, text, chunks, from) ==
    IF chunks = <<>>
    THEN \A i \in from..Len(text) : Removable(separators, text[i])
    ELSE \E i \in from..Len(text) :
            /\ Occurs(text, Head(chunks), i)
            /\ \A j \in from..(i - 1) : Removable(separators, text[j])
            /\ Exact(separators, text, Tail(chunks), i + Len(Head(chunks)))

\* C33: every chunk split_text returns is a non-empty contiguous part of the
\* text, the chunks come in the order of their positions, and with
\* chunk_overlap 0 the text is the chunks one after the other, no character
\* twice, with only separators and white space at the chunk boundaries left
\* out.
C33_ContentPreserved ==
    seg.pc = "done" =>
        /\ \A i \in DOMAIN seg.chunks : seg.chunks[i] # <<>>
        /\ InOrder(seg.text, seg.chunks, 1)
        /\ seg.chunk_overlap = 0 =>
              Exact(seg.separators, seg.text, seg.chunks, 1)

\* the prompt the running call of trim_prompt was made with
TrimStart == IF trim.round = 1 THEN trim.prompt ELSE trim.first

\* C34: every call of trim_prompt returns, because each recursive step is
\* applied to a string strictly shorter than the one the step before was
\* applied to: the recursion is never deeper than the number of characters
\* taken off the prompt so far, and the splitter called in a step returns
\* (with a working token counter no step ends in the except clause).
C34_TrimTerminates ==
    /\ [](/\ trim.depth <= Len(TrimStart) - Len(trim.arg)
          /\ (trim.pc = "done" /\ trim.encoder = "ok") =>
                trim.how # "fail_open")
    /\ [][(trim.pc = "call" /\ trim'.pc = "call") =>
             /\ trim'.depth = trim.depth + 1
             /\ Len(trim'.arg) < Len(trim.arg)]_vars

\* a call has returned after several recursive steps
C34_Witness ==
    /\ trim.pc = "done"
    /\ trim.encoder = "ok"
    /\ trim.depth >= 2
    /\ trim.result # <<>>

\* C35: a call of trim_prompt on the empty prompt returns the empty prompt,
\* whatever the budget and whether or not the token counter works; a call
\* on a prompt that the token counter counts at no more than context_size
\* tokens returns the prompt as it is, without a recursive step.
C35_TrimFrame ==
    trim.pc = "done" =>
        /\ TrimStart = <<>> => (trim.result = <<>> /\ trim.depth = 0)
        /\ (/\ encoder_at(trim.encoder, 0) = "ok"
            /\ (Len(TrimStart) + trim.chars_per_token - 1)
                   \div trim.chars_per_token <= trim.context_size) =>
              (trim.result = TrimStart /\ trim.depth = 0)

\* a prompt longer than the floor that counts exactly context_size tokens
\* has come back as it was
C35_Witness ==
    /\ Trimmed
    /\ trim.encoder = "ok"
    /\ Len(trim.prompt) > MIN_CHUNK_SIZE
    /\ num_tokens(trim.prompt, trim.chars_per_token) = trim.context_size
    /\ trim.result = trim.prompt

\* the token counter has failed in the step that made trim_prompt return
CountingFailed ==
    /\ trim.pc = "done"
    /\ trim.arg # <<>>
    /\ encoder_at(trim.encoder, trim.depth) = "error"

\* C36: when the token counter fails in a step of trim_prompt, first or
\* recursive, the call returns instead of raising, and what it returns is
\* the first 3 * context_size characters of the string that step was given
\* (all of it when it is shorter than that); a call whose counter works in
\* every step never returns that way.
C36_FailOpen ==
    /\ CountingFailed =>
          /\ trim.how = "fail_open"
          /\ Len(trim.result) = Min(Len(trim.arg), 3 * trim.context_size)
          /\ \A i \in DOMAIN trim.result : trim.result[i] = trim.arg[i]
    /\ (trim.pc = "done" /\ trim.how = "fail_open") => CountingFailed

\* the counter has failed in a recursive step, on a candidate shorter than
\* the prompt and longer than 3 * context_size characters
C36_Witness ==
    /\ CountingFailed
    /\ trim.round = 1
    /\ trim.depth >= 1
    /\ Len(trim.arg) < Len(trim.prompt)
    /\ Len(trim.result) < Len(trim.arg)
    /\ trim.result # <<>>
====
